---- MODULE Spec2Model ----
(***************************************************************************)
(* LspProjectCompiler (compiler-core/src/language_server/compiler.rs):     *)
(* the wrapper around the project compiler that repeatedly recompiles the  *)
(* top level package.  The state is the struct's fields (modules, sources, *)
(* warnings, locker), the position of each instance inside new() and       *)
(* compile(), the locals compile() keeps between its statements, and       *)
(* history variables that record what a caller has observed.               *)
(***************************************************************************)
EXTENDS Integers, Sequences, FiniteSets, TLC

\* ------------------------------------------------------------------------
\* Bounds
\* ------------------------------------------------------------------------

\* Total number of warnings the project compiler emits per instance.
MaxWarnings == 2

\* ------------------------------------------------------------------------
\* Data
\* ------------------------------------------------------------------------

\* Orchestrator instances that share one locker and one build directory.
Inst == {1, 2}

\* The instances that act in the sequential specification.
Callers == {1}

RootNames == {"a", "b"}

DepNames == {"d", "e"}

\* Source texts; "\n" is the only character LineNumbers looks at.
Codes == {<<"x">>, <<"x", "\n", "y">>}

\* Utf8PathBuf: a path that is valid UTF-8 by construction.
Utf8PathBuf(s) == [utf8 |-> s]

ModuleOf(dir, n, c) ==
    [name |-> n, input_path |-> Utf8PathBuf(dir \o n \o ".gleam"), code |-> c]

RootModules == {ModuleOf("src/", n, c) : n \in RootNames, c \in Codes}

DepModules == {ModuleOf("build/packages/dep/src/", n, c) : n \in DepNames, c \in {<<"x">>}}

Range(s) == {s[k] : k \in 1..Len(s)}

\* Sequences of modules of M with pairwise distinct names: what one package
\* (or the dependency phase) hands back.
ModuleLists(M) ==
    {<<>>} \cup {<<m>> : m \in M}
           \cup {q \in M \X M : q[1].name # q[2].name}

EmptyMap == [n \in {} |-> TRUE]

\* Mutant of Insert: an existing entry is kept (entry().or_insert()).
Insert_IfAbsent(map, k, v) ==
    [n \in (DOMAIN map) \cup {k} |-> IF n \in DOMAIN map THEN map[n] ELSE v]

\* HashMap::insert
Insert(map, k, v) == [n \in (DOMAIN map) \cup {k} |-> IF n = k THEN v ELSE map[n]]

\* path.as_os_str().to_string_lossy().to_string()
to_string_lossy(p) == p.utf8

\* LineNumbers::new(src): the offset at which every line starts.
RECURSIVE line_starts(_, _)
line_starts(src, k) ==
    IF k > Len(src) THEN <<>>
    ELSE (IF src[k] = "\n" THEN <<k>> ELSE <<>>) \o line_starts(src, k + 1)

LineNumbers(src) == [line_starts |-> <<0>> \o line_starts(src, 1), length |-> Len(src)]

ModuleSourceInformation(module) ==
    [path |-> to_string_lossy(module.input_path),
     line_numbers |-> LineNumbers(module.code)]

\* Mutant of StoreModules: self.sources is not updated.
RECURSIVE StoreModules_NoSources(_, _, _, _)
StoreModules_NoSources(mods, modules0, sources0, compiled_modules0) ==
    IF mods = <<>> THEN
        [modules |-> modules0, sources |-> sources0,
         compiled_modules |-> compiled_modules0]
    ELSE
        LET module == Head(mods)
        IN StoreModules_NoSources(Tail(mods),
                                  Insert(modules0, module.name, module),
                                  sources0,
                                  Append(compiled_modules0, module.input_path))

\* Mutant of StoreModules: a module that is compiled again gets its new
\* Module but keeps the source information of the earlier compile.
RECURSIVE StoreModules_KeepsOldSource(_, _, _, _)
StoreModules_KeepsOldSource(mods, modules0, sources0, compiled_modules0) ==
    IF mods = <<>> THEN
        [modules |-> modules0, sources |-> sources0,
         compiled_modules |-> compiled_modules0]
    ELSE
        LET module == Head(mods)
            source == ModuleSourceInformation(module)
        IN StoreModules_KeepsOldSource(
               Tail(mods),
               Insert(modules0, module.name, module),
               Insert_IfAbsent(sources0, module.name, source),
               Append(compiled_modules0, module.input_path))

\* `for module in package.modules { ... }` of compile()
RECURSIVE StoreModules(_, _, _, _)
StoreModules(mods, modules0, sources0, compiled_modules0) ==
    IF mods = <<>> THEN
        [modules |-> modules0, sources |-> sources0,
         compiled_modules |-> compiled_modules0]
    ELSE
        LET module == Head(mods)
            source == ModuleSourceInformation(module)
        IN StoreModules(Tail(mods),
                        Insert(modules0, module.name, module),
                        Insert(sources0, module.name, source),
                        Append(compiled_modules0, module.input_path))

\* compiled_dependencies.into_iter().map(|m| m.input_path).collect_vec()
InputPaths(mods) == [k \in 1..Len(mods) |-> mods[k].input_path]

\* Mutant of Take: the vector is copied out and not cleared.
Take_NoClear(sink) == [taken |-> sink, sink |-> sink]

\* self.warnings.take(): hand out the vector's contents and leave it empty
Take(sink) == [taken |-> sink, sink |-> <<>>]

None == [kind |-> "None", paths |-> <<>>, error |-> ""]
Ok(paths) == [kind |-> "Ok", paths |-> paths, error |-> ""]
Err(e) == [kind |-> "Err", paths |-> <<>>, error |-> e]

NoPackage == [ok |-> FALSE, modules |-> <<>>]

\* Names a caller may look up: every module name and one nobody defines.
LookupNames == RootNames \cup DepNames \cup {"nowhere"}

NoLookup == [op |-> "none", name |-> "", some |-> FALSE, value |-> <<>>]

Names(mods) == {m.name : m \in {mods[k] : k \in 1..Len(mods)}}

VARIABLES
    pc,                     \* position of each instance in new() / compile()
    lockHolder,             \* the instances holding a build lock guard
    buildDir,               \* does the root package's Lsp build directory exist
    modules,                \* self.modules
    sources,                \* self.sources
    warnings,               \* self.warnings (the shared vector)
    compiled_dependencies,  \* local of compile()
    package,                \* local of compile(): `result`
    result,                 \* what the last compile() returned
    emitted,                \* history: every warning emitted so far
    before,                 \* history: modules/sources/warnings at call start
    trace,                  \* history: the steps of the current/last compile()
    taken,                  \* history: what the last take_warnings() since the
                            \* last compile() returned
    consecutive,            \* history: take_warnings() calls since last compile
    delivered,              \* history: all warnings returned to the caller
    previous,               \* history: did the compile() before this one fail
                            \* on the root package
    importable,             \* project_compiler.get_importable_modules() (names)
    lookup                  \* history: the last get_source/get_module_inferface

vars == <<pc, lockHolder, buildDir, modules, sources, warnings,
          compiled_dependencies, package, result, emitted, before, trace,
          taken, consecutive, delivered, previous, importable, lookup>>

Snapshot(i) == [modules |-> modules[i], sources |-> sources[i]]

\* The k next warnings of a phase; ids are unique per instance.
Emit(i, phase, k) == [j \in 1..k |-> [phase |-> phase, id |-> Len(emitted[i]) + j]]

EmitCounts(i) == 0..(MaxWarnings - Len(emitted[i]))

Init ==
    /\ pc = [i \in Inst |-> "init"]
    /\ lockHolder = {}
    /\ buildDir \in BOOLEAN
    /\ modules = [i \in Inst |-> EmptyMap]
    /\ sources = [i \in Inst |-> EmptyMap]
    /\ warnings = [i \in Inst |-> <<>>]
    /\ compiled_dependencies = [i \in Inst |-> <<>>]
    /\ package = [i \in Inst |-> NoPackage]
    /\ result = [i \in Inst |-> None]
    /\ emitted = [i \in Inst |-> <<>>]
    /\ before = [i \in Inst |-> [modules |-> EmptyMap, sources |-> EmptyMap,
                                 warnings |-> <<>>]]
    /\ trace = [i \in Inst |-> <<>>]
    /\ taken = [i \in Inst |-> <<>>]
    /\ consecutive = [i \in Inst |-> 0]
    /\ delivered = [i \in Inst |-> <<>>]
    /\ previous = [i \in Inst |-> FALSE]
    /\ importable = [i \in Inst |-> {}]
    /\ lookup = [i \in Inst |-> NoLookup]

callLocals == <<compiled_dependencies, package>>
snapshotVars == <<modules, sources>>
takeHistory == <<taken, consecutive, delivered>>
queryVars == <<importable, lookup>>

\* Locker::lock_for_build(): wait until nobody holds a guard, then hold one.
lock_for_build(i) ==
    /\ lockHolder = {}
    /\ lockHolder' = {i}

\* FileSystemWriter::delete_directory(): deleting a missing directory
\* succeeds; deleting an existing one may fail with an I/O error.
delete_directory(exists) == IF exists THEN {"ok", "io_error"} ELSE {"ok"}

\* ------------------------------------------------------------------------
\* new()
\* ------------------------------------------------------------------------

\* Mutant of NewLock: `let _ = locker.lock_for_build()` drops the guard at
\* once, so the deletion runs without it.
NewLock_GuardDropped(i) ==
    /\ pc[i] = "init"
    /\ lockHolder = {}
    /\ pc' = [pc EXCEPT ![i] = "new_locked"]
    /\ UNCHANGED <<lockHolder, buildDir, snapshotVars, warnings, callLocals,
                   result, emitted, before, trace, takeHistory, previous,
                   queryVars>>

\* let _guard = locker.lock_for_build();
NewLock(i) ==
    /\ pc[i] = "init"
    /\ lock_for_build(i)
    /\ pc' = [pc EXCEPT ![i] = "new_locked"]
    /\ UNCHANGED <<buildDir, snapshotVars, warnings, callLocals, result,
                   emitted, before, trace, takeHistory, previous, queryVars>>

\* Mutant of NewDeleteDirectory: the directory is left in place.
NewDeleteDirectory_SkipsDelete(i) ==
    /\ pc[i] = "new_locked"
    /\ lockHolder' = lockHolder \ {i}
    /\ buildDir' = buildDir
    /\ pc' = [pc EXCEPT ![i] = "new_deleted"]
    /\ UNCHANGED <<snapshotVars, warnings, callLocals, result,
                   emitted, before, trace, takeHistory, previous, queryVars>>

\* io.delete_directory(&path)?; and the end of the guard's scope
NewDeleteDirectory(i) ==
    /\ pc[i] = "new_locked"
    /\ lockHolder' = lockHolder \ {i}
    /\ \/ /\ "ok" \in delete_directory(buildDir)
          /\ buildDir' = FALSE
          /\ pc' = [pc EXCEPT ![i] = "new_deleted"]
       \/ /\ "io_error" \in delete_directory(buildDir)
          /\ buildDir' = buildDir
          /\ pc' = [pc EXCEPT ![i] = "init"]
    /\ UNCHANGED <<snapshotVars, warnings, callLocals, result,
                   emitted, before, trace, takeHistory, previous, queryVars>>

\* ProjectCompiler::new(...) and Ok(Self { ... })
NewFinish(i) ==
    /\ pc[i] = "new_deleted"
    /\ pc' = [pc EXCEPT ![i] = "idle"]
    /\ modules' = [modules EXCEPT ![i] = EmptyMap]
    /\ sources' = [sources EXCEPT ![i] = EmptyMap]
    /\ warnings' = [warnings EXCEPT ![i] = <<>>]
    /\ importable' = [importable EXCEPT ![i] = {}]
    /\ UNCHANGED <<lockHolder, buildDir, callLocals, result,
                   emitted, before, trace, takeHistory, previous, lookup>>

\* ------------------------------------------------------------------------
\* compile()
\* ------------------------------------------------------------------------

\* pub fn compile(&mut self): the caller enters compile(); the call has not
\* got the lock yet.
CompileCall(i) ==
    /\ pc[i] = "idle"
    /\ pc' = [pc EXCEPT ![i] = "called"]
    /\ before' = [before EXCEPT ![i] = [modules |-> modules[i],
                                        sources |-> sources[i],
                                        warnings |-> warnings[i]]]
    /\ trace' = [trace EXCEPT ![i] = <<>>]
    /\ previous' = [previous EXCEPT ![i] = (result[i] = Err("root"))]
    /\ result' = [result EXCEPT ![i] = None]
    /\ consecutive' = [consecutive EXCEPT ![i] = 0]
    /\ taken' = [taken EXCEPT ![i] = <<>>]
    /\ lookup' = [lookup EXCEPT ![i] = NoLookup]
    /\ UNCHANGED <<lockHolder, buildDir, snapshotVars, warnings, callLocals,
                   emitted, delivered, importable>>

\* Mutant of CompileLock: `let _ = ...lock_for_build()` drops the guard at
\* once instead of keeping it to the end of compile().
CompileLock_GuardDropped(i) ==
    /\ pc[i] = "called"
    /\ lockHolder = {}
    /\ pc' = [pc EXCEPT ![i] = "locked"]
    /\ trace' = [trace EXCEPT ![i] = Append(@, "lock")]
    /\ UNCHANGED <<lockHolder, buildDir, snapshotVars, warnings, callLocals,
                   result, emitted, before, takeHistory, previous, queryVars>>

\* let _lock_guard = self.locker.lock_for_build();
CompileLock(i) ==
    /\ pc[i] = "called"
    /\ lock_for_build(i)
    /\ pc' = [pc EXCEPT ![i] = "locked"]
    /\ trace' = [trace EXCEPT ![i] = Append(@, "lock")]
    /\ UNCHANGED <<buildDir, snapshotVars, warnings, callLocals, result,
                   emitted, before, takeHistory, previous, queryVars>>

\* Mutant of VersionError: the error of the check is ignored.
VersionError_Ignored(i) ==
    /\ pc' = [pc EXCEPT ![i] = "checked"]
    /\ trace' = [trace EXCEPT ![i] = Append(@, "version_err")]
    /\ UNCHANGED <<lockHolder, result>>

\* Mutant of VersionError: the error is returned with the guard leaked.
VersionError_KeepsLock(i) ==
    /\ pc' = [pc EXCEPT ![i] = "idle"]
    /\ trace' = [trace EXCEPT ![i] = Append(@, "version_err")]
    /\ result' = [result EXCEPT ![i] = Err("version")]
    /\ UNCHANGED lockHolder

\* The `?` after check_gleam_version(): return the error, dropping the guard.
VersionError(i) ==
    /\ pc' = [pc EXCEPT ![i] = "idle"]
    /\ trace' = [trace EXCEPT ![i] = Append(@, "version_err")]
    /\ result' = [result EXCEPT ![i] = Err("version")]
    /\ lockHolder' = lockHolder \ {i}

\* self.project_compiler.check_gleam_version()?;
CheckGleamVersion(i) ==
    /\ pc[i] = "locked"
    /\ \/ /\ pc' = [pc EXCEPT ![i] = "checked"]
          /\ trace' = [trace EXCEPT ![i] = Append(@, "version_ok")]
          /\ UNCHANGED <<lockHolder, result>>
       \/ VersionError(i)
    /\ UNCHANGED <<buildDir, snapshotVars, warnings, callLocals, emitted,
                   before, takeHistory, previous, queryVars>>

\* Mutant of DependenciesError: the error is swallowed and compile() goes on
\* with no dependency modules.
DependenciesError_Swallowed(i) ==
    /\ pc' = [pc EXCEPT ![i] = "deps_done"]
    /\ trace' = [trace EXCEPT ![i] = Append(@, "deps_err")]
    /\ UNCHANGED <<lockHolder, result, compiled_dependencies>>

\* Mutant of DependenciesError: the error is returned with the guard leaked.
DependenciesError_KeepsLock(i) ==
    /\ pc' = [pc EXCEPT ![i] = "idle"]
    /\ trace' = [trace EXCEPT ![i] = Append(@, "deps_err")]
    /\ result' = [result EXCEPT ![i] = Err("deps")]
    /\ UNCHANGED <<lockHolder, compiled_dependencies>>

\* The `?` after compile_dependencies(): return the error, dropping the guard.
DependenciesError(i) ==
    /\ pc' = [pc EXCEPT ![i] = "idle"]
    /\ trace' = [trace EXCEPT ![i] = Append(@, "deps_err")]
    /\ result' = [result EXCEPT ![i] = Err("deps")]
    /\ lockHolder' = lockHolder \ {i}
    /\ UNCHANGED compiled_dependencies

\* Mutant of CompileDependencies: compile() goes from the dependencies
\* straight to the root package, without the drain.
CompileDependencies_SkipsDrain(i) ==
    /\ pc[i] = "checked"
    /\ buildDir' = TRUE
    /\ \E k \in EmitCounts(i) :
          /\ warnings' = [warnings EXCEPT ![i] = @ \o Emit(i, "dep", k)]
          /\ emitted' = [emitted EXCEPT ![i] = @ \o Emit(i, "dep", k)]
    /\ \/ \E deps \in ModuleLists(DepModules) :
             /\ compiled_dependencies' = [compiled_dependencies EXCEPT ![i] = deps]
             /\ importable' = [importable EXCEPT ![i] = @ \cup Names(deps)]
             /\ pc' = [pc EXCEPT ![i] = "drained"]
             /\ trace' = [trace EXCEPT ![i] = Append(@, "deps_ok")]
             /\ UNCHANGED <<lockHolder, result>>
       \/ DependenciesError(i) /\ UNCHANGED importable
    /\ UNCHANGED <<snapshotVars, package, before, takeHistory, previous, lookup>>

\* let compiled_dependencies = self.project_compiler.compile_dependencies()?;
\* The project compiler is a collaborator: it writes the build directory,
\* may push warnings into the shared vector whether it then succeeds or
\* fails, and returns the dependency modules or an error.
CompileDependencies(i) ==
    /\ pc[i] = "checked"
    /\ buildDir' = TRUE
    /\ \E k \in EmitCounts(i) :
          /\ warnings' = [warnings EXCEPT ![i] = @ \o Emit(i, "dep", k)]
          /\ emitted' = [emitted EXCEPT ![i] = @ \o Emit(i, "dep", k)]
    /\ \/ \E deps \in ModuleLists(DepModules) :
             /\ compiled_dependencies' = [compiled_dependencies EXCEPT ![i] = deps]
             /\ importable' = [importable EXCEPT ![i] = @ \cup Names(deps)]
             /\ pc' = [pc EXCEPT ![i] = "deps_done"]
             /\ trace' = [trace EXCEPT ![i] = Append(@, "deps_ok")]
             /\ UNCHANGED <<lockHolder, result>>
       \/ DependenciesError(i) /\ UNCHANGED importable
    /\ UNCHANGED <<snapshotVars, package, before, takeHistory, previous, lookup>>

\* let _ = self.take_warnings();
DrainWarnings(i) ==
    /\ pc[i] = "deps_done"
    /\ trace' = [trace EXCEPT ![i] = Append(@, "drain")]
    /\ warnings' = [warnings EXCEPT ![i] = Take(@).sink]
    /\ pc' = [pc EXCEPT ![i] = "drained"]
    /\ UNCHANGED <<lockHolder, buildDir, snapshotVars, callLocals, result,
                   emitted, before, takeHistory, previous, queryVars>>

\* let result = self.project_compiler.compile_root_package();
\* The outcome is kept in `result` (here: package); nothing returns yet.
CompileRootPackage(i) ==
    /\ pc[i] = "drained"
    /\ buildDir' = TRUE
    /\ \E k \in EmitCounts(i) :
          /\ warnings' = [warnings EXCEPT ![i] = @ \o Emit(i, "root", k)]
          /\ emitted' = [emitted EXCEPT ![i] = @ \o Emit(i, "root", k)]
    /\ \/ \E mods \in ModuleLists(RootModules) :
             /\ package' = [package EXCEPT ![i] = [ok |-> TRUE, modules |-> mods]]
             /\ importable' = [importable EXCEPT ![i] = @ \cup Names(mods)]
             /\ trace' = [trace EXCEPT ![i] = Append(@, "root_ok")]
       \/ /\ package' = [package EXCEPT ![i] = NoPackage]
          /\ UNCHANGED importable
          /\ trace' = [trace EXCEPT ![i] = Append(@, "root_err")]
    /\ pc' = [pc EXCEPT ![i] = "root_done"]
    /\ UNCHANGED <<lockHolder, snapshotVars, compiled_dependencies, result,
                   before, takeHistory, previous, lookup>>

\* Mutant of RootError: the snapshot is reset when the root package fails.
RootError_ClearsSnapshot(i) ==
    /\ result' = [result EXCEPT ![i] = Err("root")]
    /\ modules' = [modules EXCEPT ![i] = EmptyMap]
    /\ sources' = [sources EXCEPT ![i] = EmptyMap]
    /\ UNCHANGED trace

\* let package = result?;  (the Err case)
RootError(i) ==
    /\ result' = [result EXCEPT ![i] = Err("root")]
    /\ UNCHANGED <<snapshotVars, trace>>

\* Mutant of StoreAndReturn: the mappings are rebuilt from this call's
\* modules only.
StoreAndReturn_Replaces(i) ==
    LET stored == StoreModules(package[i].modules, EmptyMap, EmptyMap,
                               InputPaths(compiled_dependencies[i]))
    IN /\ modules' = [modules EXCEPT ![i] = stored.modules]
       /\ sources' = [sources EXCEPT ![i] = stored.sources]
       /\ result' = [result EXCEPT ![i] = Ok(stored.compiled_modules)]
       /\ trace' = [trace EXCEPT ![i] = Append(@, "store")]

\* Mutant of StoreAndReturn: the dependency paths are left out of the list.
StoreAndReturn_NoDependencyPaths(i) ==
    LET stored == StoreModules(package[i].modules, modules[i], sources[i], <<>>)
    IN /\ modules' = [modules EXCEPT ![i] = stored.modules]
       /\ sources' = [sources EXCEPT ![i] = stored.sources]
       /\ result' = [result EXCEPT ![i] = Ok(stored.compiled_modules)]
       /\ trace' = [trace EXCEPT ![i] = Append(@, "store")]

\* The rest of compile() after `result?`: record the dependency paths, store
\* the root modules, return Ok(compiled_modules).
StoreAndReturn(i) ==
    LET stored == StoreModules(package[i].modules, modules[i], sources[i],
                               InputPaths(compiled_dependencies[i]))
    IN /\ modules' = [modules EXCEPT ![i] = stored.modules]
       /\ sources' = [sources EXCEPT ![i] = stored.sources]
       /\ result' = [result EXCEPT ![i] = Ok(stored.compiled_modules)]
       /\ trace' = [trace EXCEPT ![i] = Append(@, "store")]

\* Mutant of CompileFinish: the guard is released on the Ok path only.
CompileFinish_LeaksLockOnError(i) ==
    /\ pc[i] = "root_done"
    /\ pc' = [pc EXCEPT ![i] = "idle"]
    /\ lockHolder' = IF package[i].ok THEN lockHolder \ {i} ELSE lockHolder
    /\ compiled_dependencies' = [compiled_dependencies EXCEPT ![i] = <<>>]
    /\ package' = [package EXCEPT ![i] = NoPackage]
    /\ IF package[i].ok THEN StoreAndReturn(i) ELSE RootError(i)
    /\ UNCHANGED <<buildDir, warnings, emitted, before, takeHistory,
                   previous, queryVars>>

\* Mutant of CompileFinish: the warning vector is drained before the root
\* error is returned.
CompileFinish_DrainsOnError(i) ==
    /\ pc[i] = "root_done"
    /\ pc' = [pc EXCEPT ![i] = "idle"]
    /\ lockHolder' = lockHolder \ {i}
    /\ compiled_dependencies' = [compiled_dependencies EXCEPT ![i] = <<>>]
    /\ package' = [package EXCEPT ![i] = NoPackage]
    /\ IF package[i].ok THEN StoreAndReturn(i) ELSE RootError(i)
    /\ warnings' = [warnings EXCEPT ![i] = IF package[i].ok THEN @ ELSE <<>>]
    /\ UNCHANGED <<buildDir, emitted, before, takeHistory,
                   previous, queryVars>>

\* let package = result?; ... Ok(compiled_modules), dropping the guard
CompileFinish(i) ==
    /\ pc[i] = "root_done"
    /\ pc' = [pc EXCEPT ![i] = "idle"]
    /\ lockHolder' = lockHolder \ {i}
    /\ compiled_dependencies' = [compiled_dependencies EXCEPT ![i] = <<>>]
    /\ package' = [package EXCEPT ![i] = NoPackage]
    /\ IF package[i].ok THEN StoreAndReturn(i) ELSE RootError(i)
    /\ UNCHANGED <<buildDir, warnings, emitted, before, takeHistory,
                   previous, queryVars>>

\* ------------------------------------------------------------------------
\* take_warnings(), get_source()
\* ------------------------------------------------------------------------

\* pub fn take_warnings(&mut self) -> Vec<Warning>
\* It borrows the instance mutably, as compile() does, so a caller can only
\* run it between two compile() calls.
TakeWarnings(i) ==
    /\ pc[i] = "idle"
    /\ warnings' = [warnings EXCEPT ![i] = Take(@).sink]
    /\ taken' = [taken EXCEPT ![i] = Take(warnings[i]).taken]
    /\ delivered' = [delivered EXCEPT ![i] = @ \o Take(warnings[i]).taken]
    /\ consecutive' = [consecutive EXCEPT ![i] = IF @ < 2 THEN @ + 1 ELSE @]
    /\ lookup' = [lookup EXCEPT ![i] = NoLookup]
    /\ UNCHANGED <<pc, lockHolder, buildDir, snapshotVars, callLocals, result,
                   emitted, before, trace, previous, importable>>

\* pub fn get_source(&self, module: &str) -> Option<&ModuleSourceInformation>
get_source(i, name) ==
    IF name \in DOMAIN sources[i]
    THEN [some |-> TRUE, value |-> sources[i][name]]
    ELSE [some |-> FALSE, value |-> LineNumbers(<<>>)]

\* self.project_compiler.get_importable_modules().get(name)
get_module_inferface(i, name) ==
    IF name \in importable[i]
    THEN [some |-> TRUE, value |-> [name |-> name]]
    ELSE [some |-> FALSE, value |-> [name |-> ""]]

\* Mutant of GetSource: a lookup of an unknown name enters an empty
\* source under that name (as `entry(name).or_default()` would).
GetSource_InsertsDefault(i) ==
    /\ pc[i] = "idle"
    /\ \E name \in LookupNames :
          /\ lookup' = [lookup EXCEPT ![i] =
                          [op |-> "get_source", name |-> name,
                           some |-> TRUE,
                           value |-> IF get_source(i, name).some
                                     THEN <<get_source(i, name).value>>
                                     ELSE <<LineNumbers(<<>>)>>]]
          /\ sources' = [sources EXCEPT ![i] =
                           Insert_IfAbsent(@, name, LineNumbers(<<>>))]
    /\ UNCHANGED <<pc, lockHolder, buildDir, modules, warnings,
                   callLocals, result, emitted, before, trace, takeHistory,
                   previous, importable>>

\* A caller runs get_source(name); it borrows the instance, so no compile()
\* of this instance is in progress.
GetSource(i) ==
    /\ pc[i] = "idle"
    /\ \E name \in LookupNames :
          lookup' = [lookup EXCEPT ![i] =
                       [op |-> "get_source", name |-> name,
                        some |-> get_source(i, name).some,
                        value |-> IF get_source(i, name).some
                                  THEN <<get_source(i, name).value>> ELSE <<>>]]
    /\ UNCHANGED <<pc, lockHolder, buildDir, snapshotVars, warnings,
                   callLocals, result, emitted, before, trace, takeHistory,
                   previous, importable>>

\* A caller runs get_module_inferface(name).
GetModuleInterface(i) ==
    /\ pc[i] = "idle"
    /\ \E name \in LookupNames :
          lookup' = [lookup EXCEPT ![i] =
                       [op |-> "get_module_inferface", name |-> name,
                        some |-> get_module_inferface(i, name).some,
                        value |-> IF get_module_inferface(i, name).some
                                  THEN <<get_module_inferface(i, name).value>>
                                  ELSE <<>>]]
    /\ UNCHANGED <<pc, lockHolder, buildDir, snapshotVars, warnings,
                   callLocals, result, emitted, before, trace, takeHistory,
                   previous, importable>>

\* ------------------------------------------------------------------------
\* Specification: one instance, any sequence of calls
\* ------------------------------------------------------------------------

Next ==
    \E i \in Callers :
        \/ NewLock(i)
        \/ NewDeleteDirectory(i)
        \/ NewFinish(i)
        \/ CompileCall(i)
        \/ CompileLock(i)
        \/ CheckGleamVersion(i)
        \/ CompileDependencies(i)
        \/ DrainWarnings(i)
        \/ CompileRootPackage(i)
        \/ CompileFinish(i)
        \/ TakeWarnings(i)

Spec == Init /\ [][Next]_vars

\* ------------------------------------------------------------------------
\* Specification: two instances on one locker and one build directory.
\* The project compiler's answers are kept small here: no dependencies, no
\* warnings, at most the one root module "a".
\* ------------------------------------------------------------------------

LockScope ==
    \A i \in Inst :
        /\ emitted[i] = <<>>
        /\ compiled_dependencies[i] = <<>>
        /\ package[i].modules \in ModuleLists({ModuleOf("src/", "a", <<"x">>)})
        /\ consecutive[i] <= 1

LockNext ==
    \E i \in Inst :
        \/ NewLock(i)
        \/ NewDeleteDirectory(i)
        \/ NewFinish(i)
        \/ CompileCall(i)
        \/ CompileLock(i)
        \/ CheckGleamVersion(i)
        \/ CompileDependencies(i) /\ LockScope'
        \/ DrainWarnings(i)
        \/ CompileRootPackage(i) /\ LockScope'
        \/ CompileFinish(i)
        \/ TakeWarnings(i) /\ LockScope'

\* Every statement of new() and compile() that does not wait terminates, and
\* the locker grants the lock fairly to a caller that keeps waiting for it.
LockFairness ==
    \A i \in Inst :
        /\ WF_vars(NewDeleteDirectory(i))
        /\ WF_vars(CheckGleamVersion(i))
        /\ WF_vars(CompileDependencies(i) /\ LockScope')
        /\ WF_vars(DrainWarnings(i))
        /\ WF_vars(CompileRootPackage(i) /\ LockScope')
        /\ WF_vars(CompileFinish(i))
        /\ SF_vars(CompileLock(i))

LockSpec == Init /\ [][LockNext]_vars /\ LockFairness

\* ------------------------------------------------------------------------
\* Specification: one instance whose caller also runs the lookups between
\* compile() calls. The project compiler's answers are kept small: at most
\* one warning, the dependency module "d", the root module "a".
\* ------------------------------------------------------------------------

QueryScope ==
    \A i \in Inst :
        /\ Len(emitted[i]) <= 1
        /\ compiled_dependencies[i] \in ModuleLists({m \in DepModules : m.name = "d"})
        /\ package[i].modules \in ModuleLists({m \in RootModules : m.name = "a"})
        /\ consecutive[i] <= 1

QueryNext ==
    \E i \in Callers :
        \/ NewLock(i)
        \/ NewDeleteDirectory(i)
        \/ NewFinish(i)
        \/ CompileCall(i)
        \/ CompileLock(i)
        \/ CheckGleamVersion(i)
        \/ CompileDependencies(i) /\ QueryScope'
        \/ DrainWarnings(i)
        \/ CompileRootPackage(i) /\ QueryScope'
        \/ CompileFinish(i)
        \/ TakeWarnings(i) /\ QueryScope'
        \/ GetSource(i)
        \/ GetModuleInterface(i)

QuerySpec == Init /\ [][QueryNext]_vars

TypeOK ==
    /\ lockHolder \subseteq Inst /\ Cardinality(lockHolder) <= 1
    /\ \A i \in Inst : Len(emitted[i]) <= MaxWarnings

\* ------------------------------------------------------------------------
\* Properties
\* ------------------------------------------------------------------------

\* A compile() call has returned and no other has started since.
Returned(i) == pc[i] = "idle" /\ result[i].kind # "None"

SnapshotUntouched(i) ==
    /\ modules[i] = before[i].modules
    /\ sources[i] = before[i].sources

\* C1: when compile_root_package() fails, compile() returns that error and
\* both mappings are what they were when the call started, whatever calls
\* came before.
C1_RootFailureKeepsSnapshot ==
    \A i \in Inst :
        "root_err" \in Range(trace[i]) /\ pc[i] = "idle"
            => result[i] = Err("root") /\ SnapshotUntouched(i)

\* A root failure returned after an earlier compile() had filled the snapshot.
C1_Witness ==
    \E i \in Inst :
        /\ Returned(i) /\ result[i] = Err("root")
        /\ DOMAIN before[i].modules = RootNames
        /\ modules[i] = before[i].modules

\* C2: when compile_dependencies() fails, compile() returns that error at
\* once: no drain, no root compile, no store, and the snapshot is untouched.
C2_DependencyFailureShortCircuits ==
    \A i \in Inst :
        "deps_err" \in Range(trace[i])
            => /\ trace[i] = <<"lock", "version_ok", "deps_err">>
               /\ pc[i] = "idle"
               /\ result[i] = Err("deps")
               /\ SnapshotUntouched(i)

\* A dependency failure returned after an earlier compile() had filled the
\* snapshot.
C2_Witness ==
    \E i \in Inst :
        /\ Returned(i) /\ result[i] = Err("deps")
        /\ before[i].modules # EmptyMap
        /\ modules[i] = before[i].modules

StoreStep(i) == pc[i] = "root_done" /\ package[i].ok /\ pc'[i] = "idle"

PackageNames(i) == {m.name : m \in Range(package[i].modules)}

SnapshotPaths(i) == {modules[i][n].input_path : n \in DOMAIN modules[i]}

IsRootPath(p) == \E m \in RootModules : m.input_path = p

C6_EntriesPersist ==
    [][\A i \in Inst :
          \A n \in DOMAIN modules[i] :
             /\ n \in DOMAIN modules'[i]
             /\ n \in DOMAIN sources'[i]
             /\ (~StoreStep(i) \/ n \notin PackageNames(i))
                   => /\ modules'[i][n] = modules[i][n]
                      /\ sources'[i][n] = sources[i][n]]_vars

\* A successful compile() whose root package lacks a module of the snapshot
\* has returned, and the module is still there.
C6_Witness ==
    \E i \in Inst :
        /\ Returned(i) /\ result[i].kind = "Ok"
        /\ \E n \in DOMAIN modules[i] :
              /\ modules[i][n].input_path \notin Range(result[i].paths)
              /\ n \in DOMAIN before[i].modules
              /\ modules[i][n] = before[i].modules[n]
              /\ sources[i][n] = before[i].sources[n]

\* C7: a successful compile() returns the dependency paths in the order
\* compile_dependencies() gave them, followed by the root module paths in
\* the order of package.modules; with neither, the list is empty and an
\* empty snapshot stays empty.
C7_ReturnedPathOrder ==
    [][\A i \in Inst :
          StoreStep(i) =>
             /\ result'[i] = Ok(InputPaths(compiled_dependencies[i])
                                  \o InputPaths(package[i].modules))
             /\ (compiled_dependencies[i] = <<>> /\ package[i].modules = <<>>
                    /\ modules[i] = EmptyMap /\ sources[i] = EmptyMap)
                   => /\ result'[i].paths = <<>>
                      /\ modules'[i] = EmptyMap
                      /\ sources'[i] = EmptyMap]_vars

\* A successful compile() has returned two dependency paths and two root
\* paths.
C7_Witness ==
    \E i \in Inst :
        /\ Returned(i) /\ result[i].kind = "Ok"
        /\ Len(result[i].paths) = 4
        /\ ~IsRootPath(result[i].paths[2])
        /\ IsRootPath(result[i].paths[3])

\* How often warning w occurs in the sequence ws.
Count(ws, w) == Cardinality({k \in 1..Len(ws) : ws[k] = w})

\* C8 as stated: no warning emitted while compiling dependencies is ever
\* returned to the caller by take_warnings().
C8_NoDependencyWarningTaken ==
    \A i \in Inst :
        \A k \in 1..Len(delivered[i]) : delivered[i][k].phase # "dep"

\* C9: the second of two take_warnings() calls with no compile() between
\* them returns nothing.
C9_SecondTakeIsEmpty ==
    \A i \in Inst : consecutive[i] = 2 => taken[i] = <<>>

\* take_warnings() was called twice in a row after a compile() whose
\* warnings the first call returned.
C9_Witness ==
    \E i \in Inst :
        /\ consecutive[i] = 2
        /\ Returned(i)
        /\ delivered[i] # <<>>
        /\ warnings[i] = <<>>

\* C10 as stated: every warning the root package emitted is still in the
\* sink or has been returned to the caller by exactly one take_warnings().
C10_RootWarningsTakenOnce ==
    \A i \in Inst :
        \A k \in 1..Len(emitted[i]) :
            emitted[i][k].phase = "root"
                => Count(warnings[i], emitted[i][k])
                     + Count(delivered[i], emitted[i][k]) = 1

\* The positions of compile() between taking the guard and returning.
InCompile == {"locked", "checked", "deps_done", "drained", "root_done"}

\* The positions at which an instance holds a guard.
HoldsGuard == InCompile \cup {"new_locked"}

\* C11: compile() holds the lock from its first statement to its return, so
\* of the instances sharing the locker at most one is inside the version
\* check, dependency compile, drain, root compile or store, and none is
\* there while another deletes the directory in new().
C11_CompileStepsExclusive ==
    /\ \A i \in Inst : pc[i] \in InCompile => lockHolder = {i}
    /\ \A i, j \in Inst :
          i # j /\ pc[i] \in InCompile => pc[j] \notin HoldsGuard

\* One instance is between dependency compile and drain while the other has
\* called compile() and waits for the lock.
C11_Witness ==
    \E i, j \in Inst :
        /\ i # j
        /\ pc[i] = "deps_done"
        /\ pc[j] = "called"
        /\ lockHolder = {i}

\* C12: an instance holds the lock only inside compile() or inside the
\* locked block of new(): after every return of compile(), Ok or error, and
\* whenever no call is running, it holds no guard.
C12_LockReleasedOnReturn ==
    \A i \in Inst : pc[i] \notin HoldsGuard => i \notin lockHolder

\* A compile() that succeeded after one that failed on the root package:
\* both have returned and the lock is free.
C12_Witness ==
    \E i \in Inst :
        /\ Returned(i) /\ result[i].kind = "Ok"
        /\ previous[i]
        /\ lockHolder = {}

\* C13: a compile() called while another instance holds the lock does not
\* return early: it stays at the call until it gets the lock; and, the other
\* holders' statements terminating and the locker being fair, it gets the
\* lock and returns a result.
C13_WaitingCompileReturns ==
    /\ [][\A i \in Inst :
            pc[i] = "called"
               => pc'[i] \in {"called", "locked"} /\ result'[i] = None]_vars
    /\ \A i \in Inst :
          (pc[i] = "called") ~> (pc[i] = "idle" /\ result[i].kind # "None")

\* An instance has called compile() while the other is about to finish its
\* own compile() under the lock.
C13_Witness ==
    \E i, j \in Inst :
        /\ i # j
        /\ pc[i] = "called"
        /\ pc[j] = "root_done"
        /\ lockHolder = {j}

\* C14: when new() gets past the deletion the build directory is absent,
\* whether it was there or not; a missing directory does not make new()
\* fail; and the instance new() returns has empty mappings and an empty
\* warning vector.
C14_ConstructionClearsBuildDir ==
    [][\A i \in Inst :
          /\ (pc[i] = "new_locked" /\ pc'[i] = "new_deleted") => ~buildDir'
          /\ (pc[i] = "new_locked" /\ ~buildDir) => pc'[i] # "init"
          /\ (pc[i] = "new_deleted" /\ pc'[i] = "idle")
                => /\ modules'[i] = EmptyMap
                   /\ sources'[i] = EmptyMap
                   /\ warnings'[i] = <<>>]_vars

\* new() has returned an instance on which nothing has been called yet.
C14_Witness ==
    \E i \in Inst :
        /\ pc[i] = "idle" /\ result[i] = None /\ trace[i] = <<>>
        /\ ~buildDir
        /\ Snapshot(i) = [modules |-> EmptyMap, sources |-> EmptyMap]
        /\ warnings[i] = <<>>

\* C15: new() leaves the locked block, by success or by the I/O error of
\* delete_directory(), only as the holder of the lock and with the lock
\* released; no other instance is inside compile()'s locked statements at
\* that moment, and new() holds nothing once it is past the block.
C15_DeletionUnderLock ==
    [][\A i \in Inst :
          /\ (pc[i] = "new_locked" /\ pc'[i] # "new_locked")
                => /\ lockHolder = {i}
                   /\ i \notin lockHolder'
                   /\ \A j \in Inst \ {i} : pc[j] \notin InCompile
          /\ (pc[i] \in {"init", "new_deleted"}) => i \notin lockHolder]_vars

\* new() of one instance is about to delete the directory while the other
\* instance has called compile() and waits.
C15_Witness ==
    \E i, j \in Inst :
        /\ i # j
        /\ pc[i] = "new_locked"
        /\ lockHolder = {i}
        /\ pc[j] = "called"
        /\ buildDir

RootPathsOf(paths) == {p \in Range(paths) : IsRootPath(p)}

\* C16: a compile() that fails on the root package with an empty snapshot
\* leaves the snapshot empty, holds no lock and can be called again; and the
\* next compile(), if its root compile succeeds, returns Ok and leaves in
\* the snapshot the root modules it compiled.
C16_RetryAfterRootFailure ==
    \A i \in Inst :
        /\ (Returned(i) /\ result[i] = Err("root")
               /\ before[i].modules = EmptyMap /\ before[i].sources = EmptyMap)
              => /\ modules[i] = EmptyMap
                 /\ sources[i] = EmptyMap
                 /\ i \notin lockHolder
                 /\ ENABLED CompileCall(i)
        /\ (pc[i] = "idle" /\ previous[i] /\ "root_ok" \in Range(trace[i])
               /\ before[i].modules = EmptyMap)
              => /\ result[i].kind = "Ok"
                 /\ SnapshotPaths(i) = RootPathsOf(result[i].paths)
                 /\ DOMAIN sources[i] = DOMAIN modules[i]

\* The first compile() failed on the root package, the second one succeeded
\* and stored root modules.
C16_Witness ==
    \E i \in Inst :
        /\ Returned(i) /\ result[i].kind = "Ok"
        /\ previous[i]
        /\ before[i].modules = EmptyMap
        /\ DOMAIN modules[i] = RootNames

\* The statement of compile() a trace entry stands for.
StepOf(tag) ==
    CASE tag = "lock" -> "lock"
      [] tag \in {"version_ok", "version_err"} -> "version"
      [] tag \in {"deps_ok", "deps_err"} -> "deps"
      [] tag = "drain" -> "drain"
      [] tag \in {"root_ok", "root_err"} -> "root"
      [] tag = "store" -> "store"

StepOrder == <<"lock", "version", "deps", "drain", "root", "store">>

\* C17: the statements of a compile() call run in the order lock, version
\* check, dependency compile, drain, root compile, store, all while the
\* instance holds the lock; the root compile starts only after the
\* dependency compile succeeded and the drain emptied the vector.
C17_StepOrder ==
    \A i \in Inst :
        /\ Len(trace[i]) <= Len(StepOrder)
        /\ \A k \in 1..Len(trace[i]) : StepOf(trace[i][k]) = StepOrder[k]
        /\ \A k \in 1..Len(trace[i]) :
              StepOf(trace[i][k]) = "root"
                 => trace[i][k - 2] = "deps_ok" /\ trace[i][k - 1] = "drain"
        /\ pc[i] = "drained" => warnings[i] = <<>>
        /\ pc[i] \in InCompile => lockHolder = {i}

\* A compile() ran all six statements and its dependency compile had
\* emitted a warning for the drain to remove.
C17_Witness ==
    \E i \in Inst :
        /\ Returned(i)
        /\ trace[i] = <<"lock", "version_ok", "deps_ok", "drain", "root_ok", "store">>
        /\ \E k \in 1..Len(emitted[i]) : emitted[i][k].phase = "dep"
        /\ \E k \in 1..Len(emitted[i]) : emitted[i][k].phase = "root"

\* C18: in every state the two mappings have the same names, and the source
\* information under a name is the one computed from the Module under
\* that name.
C18_MappingsConsistent ==
    \A i \in Inst :
        /\ DOMAIN modules[i] = DOMAIN sources[i]
        /\ \A n \in DOMAIN modules[i] :
              /\ modules[i][n].name = n
              /\ sources[i][n] = ModuleSourceInformation(modules[i][n])

\* A compile() has replaced a module by one with another source text, and
\* its source information with it.
C18_Witness ==
    \E i \in Inst :
        /\ Returned(i) /\ result[i].kind = "Ok"
        /\ \E n \in (DOMAIN modules[i]) \cap (DOMAIN before[i].modules) :
              /\ modules[i][n].code # before[i].modules[n].code
              /\ sources[i][n] # before[i].sources[n]

\* C20: the warnings compile_root_package() pushed are what the vector
\* holds when it returns; a failing compile() returns the root error
\* without touching the vector; and the caller's next take_warnings()
\* returns exactly those warnings.
C20_RootFailureKeepsWarnings ==
    [][\A i \in Inst :
          /\ (pc[i] = "drained" /\ pc'[i] = "root_done")
                => /\ warnings'[i] = SubSeq(emitted'[i], Len(emitted[i]) + 1,
                                            Len(emitted'[i]))
                   /\ \A w \in Range(warnings'[i]) : w.phase = "root"
          /\ (pc[i] = "root_done" /\ ~package[i].ok /\ pc'[i] = "idle")
                => /\ result'[i] = Err("root")
                   /\ warnings'[i] = warnings[i]
          /\ (pc[i] = "idle" /\ result[i] = Err("root")
                 /\ consecutive[i] = 0 /\ consecutive'[i] = 1)
                => /\ taken'[i] = warnings[i]
                   /\ delivered'[i] = delivered[i] \o warnings[i]]_vars

\* A compile() failed on the root package after it had emitted a warning,
\* and take_warnings() has returned that warning.
C20_Witness ==
    \E i \in Inst :
        /\ Returned(i) /\ result[i] = Err("root")
        /\ consecutive[i] = 1
        /\ taken[i] # <<>>
        /\ \A w \in Range(taken[i]) : w.phase = "root"

\* C19: a get_source() or get_module_inferface() step changes neither the
\* lock, nor the two mappings, nor the warning vector, and answers None
\* exactly for a name that is not there; a take_warnings() step changes
\* neither the lock nor the two mappings.
C19_QueriesLeaveStateAlone ==
    [][\A i \in Inst :
          /\ (lookup'[i] # lookup[i] /\ lookup'[i].op # "none")
                => /\ lockHolder' = lockHolder
                   /\ modules' = modules /\ sources' = sources
                   /\ warnings' = warnings
                   /\ pc' = pc
                   /\ lookup'[i].op = "get_source"
                         => lookup'[i].some = (lookup'[i].name \in DOMAIN sources[i])
                   /\ lookup'[i].op = "get_module_inferface"
                         => lookup'[i].some = (lookup'[i].name \in importable[i])
                   /\ lookup'[i].some = (lookup'[i].value # <<>>)
          /\ (pc[i] = "idle" /\ pc'[i] = "idle" /\ consecutive'[i] > consecutive[i])
                => /\ lockHolder' = lockHolder
                   /\ modules' = modules /\ sources' = sources]_vars

\* After a successful compile() whose warning is still in the vector, a
\* lookup of a name nobody compiled has answered None.
C19_Witness ==
    \E i \in Inst :
        /\ lookup[i].op \in {"get_source", "get_module_inferface"}
        /\ lookup[i].name = "nowhere" /\ ~lookup[i].some
        /\ modules[i] # EmptyMap
        /\ warnings[i] # <<>>
====
